---- MODULE Spec2Model ----
(***************************************************************************)
(* Model of src/main.py: the audio summary bot.                            *)
(*   - handle_files / download_and_process / process_audio: the job        *)
(*     pipeline (fetch, transcode, transcribe, generate, deliver+stage,    *)
(*     cleanup), one Celery task per job stage chain;                      *)
(*   - the Redis staging store (subject:<id>, message:<id>);               *)
(*   - the review handlers (edit subject / edit body / send email), run    *)
(*     by TeleBot's worker threads, hence interleaved.                     *)
(* Texts are strings; Python's None is the sentinel None below.            *)
(***************************************************************************)
EXTENDS Integers, Sequences, FiniteSets, TLC

VARIABLES
    now,        \* the wall clock, in days since the first day
    fs,         \* the local filesystem: path -> index of the job that wrote it
    jobs,       \* the Celery jobs, in the order handle_files enqueued them
    store,      \* Redis: key -> [val, expireAt, written]
    pending,    \* TeleBot next-step handlers: chat -> sequence of [fn, report_id]
    calls,      \* the handler invocations, in order of arrival
    uuids       \* how many uuid4() values have been drawn

vars == <<now, fs, jobs, store, pending, calls, uuids>>

----------------------------------------------------------------------------
(* Bounds of the model *)

MaxJobs == 2
MaxCalls == 4
MaxClock == 1
StagingTTL == 1

(* Program constants and configuration *)

ChunkSize == 4095
TO_EMAIL == <<"a@clinic", "b@clinic">>

(* Inputs *)

None == "<None>"
Chats == {"c1", "c2"}
FileUniqueIds == {"u1"}
RemotePaths == {"voice/file_0.oga", "music/file_1.mp3"}
Uploads ==
    {[content_type |-> "voice", mime_type |-> None],
     [content_type |-> "audio", mime_type |-> None],
     [content_type |-> "document", mime_type |-> "audio/mpeg"],
     [content_type |-> "document", mime_type |-> "application/pdf"]}
UserTexts == {"Session Notes", "Follow-up"}
ProbeOutcomes == {"audio", "no_audio", "ffmpeg_error"}
TranscriptionOutcomes == {None, "", "hello"}
ReportOutcomes == {None, "", "# SOAP NOTE"}

\* s repeated k times
RECURSIVE Repeat(_, _)
Repeat(s, k) ==
    IF k = 0 THEN ""
    ELSE LET half == Repeat(s, k \div 2)
         IN  IF k % 2 = 0 THEN half \o half ELSE half \o half \o s

\* a report of the given length
ReportOfLength(n) == SubSeq(Repeat("abcdefghijk", n \div 11 + 1), 1, n)

\* reports around the chunk size of send_long_message and twice that size
LongReports == {ReportOfLength(n) : n \in {1, 4095, 4096, 8191}}

----------------------------------------------------------------------------
(* Python string helpers *)

\* mutant: "is not None" in place of truthiness
Truthy_not_none(v) == v # None

\* Python truthiness of an optional string: "if compressed_path:", "if transcription:", ...
Truthy(v) == v # None /\ v # ""

StartsWith(s, p) == Len(s) >= Len(p) /\ SubSeq(s, 1, Len(p)) = p

EndsWith(s, p) == Len(s) >= Len(p) /\ SubSeq(s, Len(s) - Len(p) + 1, Len(s)) = p

\* the largest i with s[i] = c, or 0
LastIndexOf(s, c) ==
    LET hits == {i \in 1..Len(s) : SubSeq(s, i, i) = c}
    IN  IF hits = {} THEN 0 ELSE CHOOSE i \in hits : \A k \in hits : k <= i

\* the smallest i with s[i] = c, or 0
FirstIndexOf(s, c) ==
    LET hits == {i \in 1..Len(s) : SubSeq(s, i, i) = c}
    IN  IF hits = {} THEN 0 ELSE CHOOSE i \in hits : \A k \in hits : i <= k

\* s.split('.')[-1]
LastDotPart(s) == SubSeq(s, LastIndexOf(s, ".") + 1, Len(s))

\* os.path.basename(p)
Basename(p) == SubSeq(p, LastIndexOf(p, "/") + 1, Len(p))

\* os.path.splitext(p)[0]
SplitextRoot(p) ==
    LET dot == LastIndexOf(p, ".")
        slash == LastIndexOf(p, "/")
    IN  IF dot > slash + 1 THEN SubSeq(p, 1, dot - 1) ELSE p

\* call.data.split(":", 1)[1]
ReportIdOf(data) == SubSeq(data, FirstIndexOf(data, ":") + 1, Len(data))

Digit(n) == <<"0", "1", "2", "3", "4", "5", "6", "7", "8", "9">>[n + 1]

\* datetime.now(tz=pytz.utc).strftime("%d/%m/%Y"), the clock starting on 01/10/2026
FormattedDate(t) == Digit((t + 1) \div 10) \o Digit((t + 1) % 10) \o "/10/2026"

DefaultSubject(t) == "Notes " \o FormattedDate(t)

\* str(uuid.uuid4()): the n-th value drawn, distinct from every other
Uuid4(n) == "r" \o Digit(n)

----------------------------------------------------------------------------
(* The Redis staging store *)

NoExpiry == -1

\* redis_client.get(key)
Get(key) ==
    IF key \in DOMAIN store
       /\ (store[key].expireAt = NoExpiry \/ now < store[key].expireAt)
    THEN store[key].val
    ELSE None

\* mutant: SET ... NX, an existing value is kept
Set_nx(st, key, value) ==
    [k \in DOMAIN st \cup {key} |->
        IF k = key /\ k \notin DOMAIN st
        THEN [val |-> value, expireAt |-> NoExpiry, written |-> now]
        ELSE st[k]]

\* redis_client.set(key, value): no ex/px argument, so the key gets no expiry
Set(st, key, value) ==
    [k \in DOMAIN st \cup {key} |->
        IF k = key THEN [val |-> value, expireAt |-> NoExpiry, written |-> now]
        ELSE st[k]]

\* redis_client.delete(key)
Delete(st, key) == [k \in DOMAIN st \ {key} |-> st[k]]

SubjectKey(report_id) == "subject:" \o report_id
MessageKey(report_id) == "message:" \o report_id

----------------------------------------------------------------------------
(* Chat messages *)

Msg(chat, text) == [chat |-> chat, text |-> text, markup |-> <<>>]

Controls(report_id) ==
    <<"edit_subject:" \o report_id,
      "edit_message:" \o report_id,
      "send_email:" \o report_id>>

Min(a, b) == IF a < b THEN a ELSE b

\* mutant: one more chunk than full ones, also when the last full one ends the text
send_long_message_extra(chat, message) ==
    [k \in 1..(Len(message) \div ChunkSize + 1) |->
        Msg(chat, SubSeq(message, (k - 1) * ChunkSize + 1,
                         Min(k * ChunkSize, Len(message))))]

\* send_long_message(chat_id, message)
send_long_message(chat, message) ==
    [k \in 1..((Len(message) + ChunkSize - 1) \div ChunkSize) |->
        Msg(chat, SubSeq(message, (k - 1) * ChunkSize + 1,
                         Min(k * ChunkSize, Len(message))))]

ReadyText == "Report ready. You can edit the subject and message, or send the email directly."

----------------------------------------------------------------------------
(* Records *)

\* mutant: the handler has fetched the file itself before it returns
NewJob_fetched(chat, remote_path, local_path) ==
    [chat |-> chat, remote_path |-> remote_path, input_path |-> local_path,
     pc |-> "compress", probe |-> None, output_path |-> None, compressed_path |-> None,
     transcription |-> None, report |-> None, report_id |-> None,
     out |-> <<>>, stages |-> <<[stage |-> "fetch", ok |-> TRUE]>>,
     caught |-> FALSE, raised |-> None]

\* the job download_and_process.delay(...) enqueues
NewJob(chat, remote_path, local_path) ==
    [chat |-> chat, remote_path |-> remote_path, input_path |-> local_path,
     pc |-> "download", probe |-> None, output_path |-> None, compressed_path |-> None,
     transcription |-> None, report |-> None, report_id |-> None,
     out |-> <<>>, stages |-> <<>>, caught |-> FALSE, raised |-> None]

NewCall(kind, chat, report_id, text, pc) ==
    [kind |-> kind, chat |-> chat, report_id |-> report_id, text |-> text,
     pc |-> pc, subject |-> None, message |-> None,
     out |-> <<>>, mails |-> <<>>,
     \* history: every earlier handler had returned when this one was called
     quiet |-> \A d \in 1..Len(calls) : calls[d].pc = "done"]

Stage(name, ok) == [stage |-> name, ok |-> ok]

NFiles == Cardinality({c \in 1..Len(calls) : calls[c].kind = "handle_files"})
NReview == Len(calls) - NFiles

----------------------------------------------------------------------------
(* Initial state *)

Init ==
    /\ now = 0
    /\ fs = <<>>
    /\ jobs = <<>>
    /\ store = <<>>
    /\ pending = [c \in Chats |-> <<>>]
    /\ calls = <<>>
    /\ uuids = 0

----------------------------------------------------------------------------
(* handle_files: the chat-facing handler for document, audio and voice *)

LocalPath(file_unique_id, remote_path) ==
    "downloads/" \o file_unique_id \o "." \o LastDotPart(remote_path)

Accepted(upload) ==
    IF upload.content_type = "document"
    THEN StartsWith(upload.mime_type, "audio/")
    ELSE upload.content_type \in {"audio", "voice"}

handle_files(chat, upload, file_unique_id, remote_path) ==
    /\ NFiles < MaxJobs
    /\ pending[chat] = <<>>
    /\ IF Accepted(upload)
       THEN /\ calls' = Append(calls,
                    [NewCall("handle_files", chat, None, None, "done") EXCEPT
                        !.out = <<Msg(chat, "Please wait while we process the file")>>])
            /\ jobs' = Append(jobs,
                    NewJob(chat, remote_path, LocalPath(file_unique_id, remote_path)))
       ELSE /\ calls' = Append(calls,
                    [NewCall("handle_files", chat, None, None, "done") EXCEPT
                        !.out = <<Msg(chat, "Please send an audio file.")>>])
            /\ jobs' = jobs
    /\ UNCHANGED <<now, fs, store, pending, uuids>>

----------------------------------------------------------------------------
(* download_and_process: the fetch task *)

WriteFile(files, path, j) ==
    [p \in DOMAIN files \cup {path} |-> IF p = path THEN j ELSE files[p]]

RemoveFile(files, path) == [p \in DOMAIN files \ {path} |-> files[p]]

download_and_process(j, downloaded) ==
    /\ jobs[j].pc = "download"
    /\ IF downloaded
       THEN /\ fs' = WriteFile(fs, jobs[j].input_path, j)
            /\ jobs' = [jobs EXCEPT ![j].pc = "compress",
                                    ![j].stages = Append(@, Stage("fetch", TRUE))]
       ELSE \* bot.download_file raises: the task ends, process_audio is not enqueued
            /\ fs' = fs
            /\ jobs' = [jobs EXCEPT ![j].pc = "done",
                                    ![j].stages = Append(@, Stage("fetch", FALSE)),
                                    ![j].raised = "download_error"]
    /\ UNCHANGED <<now, store, pending, calls, uuids>>

----------------------------------------------------------------------------
(* process_audio: transcode, transcribe, generate, deliver and stage, cleanup *)

OutputPath(input_path) == "downloads/" \o "compressed_" \o Basename(input_path)

\* the path compress_audio writes to and returns
Mp3Path(output_path) ==
    IF EndsWith(output_path, ".mp3") THEN output_path
    ELSE SplitextRoot(output_path) \o ".mp3"

\* mutant: the probe's answer is not looked at
compress_audio_unprobed(files, input_path, output_path, outcome) ==
    IF input_path \in DOMAIN files /\ outcome \in {"audio", "no_audio"}
    THEN Mp3Path(output_path)
    ELSE None

\* compress_audio(input_path, output_path): the returned path, or None
compress_audio(files, input_path, output_path, outcome) ==
    IF input_path \in DOMAIN files /\ outcome = "audio"
    THEN Mp3Path(output_path)
    ELSE None

Compress(j, outcome) ==
    /\ jobs[j].pc = "compress"
    /\ LET output_path == OutputPath(jobs[j].input_path)
           compressed_path == compress_audio(fs, jobs[j].input_path, output_path, outcome)
       IN  IF Truthy(compressed_path)
           THEN /\ fs' = WriteFile(fs, compressed_path, j)
                /\ jobs' = [jobs EXCEPT ![j].pc = "transcribe",
                                        ![j].probe = outcome,
                                        ![j].output_path = output_path,
                                        ![j].compressed_path = compressed_path,
                                        ![j].stages = Append(@, Stage("transcode", TRUE))]
           ELSE /\ fs' = fs
                /\ jobs' = [jobs EXCEPT ![j].pc = "cleanup",
                                        ![j].probe = outcome,
                                        ![j].output_path = output_path,
                                        ![j].stages = Append(@, Stage("transcode", FALSE)),
                                        ![j].out = Append(@, Msg(jobs[j].chat, "Failed to compress audio."))]
    /\ UNCHANGED <<now, store, pending, calls, uuids>>

\* transcribe_audio(file_path): the text, or None when opening or the API call fails
transcribe_audio(files, file_path, outcome) ==
    IF file_path \in DOMAIN files THEN outcome ELSE None

Transcribe(j, outcome) ==
    /\ jobs[j].pc = "transcribe"
    /\ LET transcription == transcribe_audio(fs, jobs[j].compressed_path, outcome)
       IN  IF Truthy(transcription)
           THEN jobs' = [jobs EXCEPT ![j].pc = "generate",
                                     ![j].transcription = transcription,
                                     ![j].stages = Append(@, Stage("transcribe", TRUE))]
           ELSE jobs' = [jobs EXCEPT ![j].pc = "cleanup",
                                     ![j].transcription = transcription,
                                     ![j].stages = Append(@, Stage("transcribe", FALSE)),
                                     ![j].out = Append(@, Msg(jobs[j].chat, "Failed to transcribe audio."))]
    /\ UNCHANGED <<now, fs, store, pending, calls, uuids>>

\* mutant: a failed generation falls back to sending the transcription
Generate_surfacing(j, report) ==
    /\ jobs[j].pc = "generate"
    /\ IF report # "<None>" /\ report # ""
       THEN jobs' = [jobs EXCEPT ![j].pc = "deliver",
                                 ![j].report = report,
                                 ![j].stages = Append(@, [stage |-> "generate", ok |-> TRUE])]
       ELSE jobs' = [jobs EXCEPT ![j].pc = "cleanup",
                                 ![j].report = report,
                                 ![j].stages = Append(@, [stage |-> "generate", ok |-> FALSE]),
                                 ![j].out = Append(@, [chat |-> jobs[j].chat,
                                                       text |-> jobs[j].transcription,
                                                       markup |-> <<>>])]
    /\ UNCHANGED <<now, fs, store, pending, calls, uuids>>

Generate(j, report) ==
    /\ jobs[j].pc = "generate"
    /\ IF Truthy(report)
       THEN jobs' = [jobs EXCEPT ![j].pc = "deliver",
                                 ![j].report = report,
                                 ![j].stages = Append(@, Stage("generate", TRUE))]
       ELSE jobs' = [jobs EXCEPT ![j].pc = "cleanup",
                                 ![j].report = report,
                                 ![j].stages = Append(@, Stage("generate", FALSE)),
                                 ![j].out = Append(@, Msg(jobs[j].chat, "Failed to generate report."))]
    /\ UNCHANGED <<now, fs, store, pending, calls, uuids>>

\* the "Report ready" message of prompt_for_email_option
ReadyMsg(chat, report_id) ==
    [chat |-> chat, text |-> ReadyText, markup |-> Controls(report_id)]

\* send_long_message(chat_id, report), then the start of prompt_for_email_option:
\* report_id = str(uuid.uuid4()); redis_client.set(f"message:{report_id}", report)
Deliver(j, redis_up) ==
    /\ jobs[j].pc = "deliver"
    /\ uuids' = uuids + 1
    /\ LET report_id == Uuid4(uuids + 1)
           chunks == send_long_message(jobs[j].chat, jobs[j].report)
       IN  IF redis_up
           THEN /\ store' = Set(store, MessageKey(report_id), jobs[j].report)
                /\ jobs' = [jobs EXCEPT ![j].pc = "stage_subject",
                                        ![j].report_id = report_id,
                                        ![j].out = @ \o chunks]
           ELSE \* redis_client.set raises ConnectionError: caught by "except Exception"
                /\ store' = store
                /\ jobs' = [jobs EXCEPT ![j].pc = "cleanup",
                                        ![j].stages = Append(@, Stage("stage", FALSE)),
                                        ![j].out = @ \o chunks,
                                        ![j].caught = TRUE]
    /\ UNCHANGED <<now, fs, pending, calls>>

\* mutant: the subject key is not written
StageSubject_skipped(j, redis_up) ==
    /\ jobs[j].pc = "stage_subject"
    /\ store' = store
    /\ jobs' = [jobs EXCEPT ![j].pc = "notify"]
    /\ UNCHANGED <<now, fs, pending, calls, uuids>>

\* the second write of prompt_for_email_option:
\* redis_client.set(f"subject:{report_id}", f"Notes {formatted_date}")
StageSubject(j, redis_up) ==
    /\ jobs[j].pc = "stage_subject"
    /\ IF redis_up
       THEN /\ store' = Set(store, SubjectKey(jobs[j].report_id), DefaultSubject(now))
            /\ jobs' = [jobs EXCEPT ![j].pc = "notify"]
       ELSE \* ConnectionError, caught by "except Exception": message:<id> stays
            /\ store' = store
            /\ jobs' = [jobs EXCEPT ![j].pc = "cleanup",
                                    ![j].stages = Append(@, Stage("stage", FALSE)),
                                    ![j].caught = TRUE]
    /\ UNCHANGED <<now, fs, pending, calls, uuids>>

\* the end of prompt_for_email_option: the "Report ready" message with its controls
Notify(j) ==
    /\ jobs[j].pc = "notify"
    /\ jobs' = [jobs EXCEPT ![j].pc = "cleanup",
                            ![j].stages = Append(@, Stage("stage", TRUE)),
                            ![j].out = Append(@, ReadyMsg(jobs[j].chat, jobs[j].report_id))]
    /\ UNCHANGED <<now, fs, store, pending, calls, uuids>>

\* the finally block: os.remove(input_path); os.remove(output_path)
Cleanup(j) ==
    /\ jobs[j].pc = "cleanup"
    /\ IF jobs[j].input_path \notin DOMAIN fs
       THEN /\ fs' = fs
            /\ jobs' = [jobs EXCEPT ![j].pc = "done", ![j].raised = "FileNotFoundError"]
       ELSE IF jobs[j].output_path \notin DOMAIN fs
       THEN /\ fs' = RemoveFile(fs, jobs[j].input_path)
            /\ jobs' = [jobs EXCEPT ![j].pc = "done", ![j].raised = "FileNotFoundError"]
       ELSE /\ fs' = RemoveFile(RemoveFile(fs, jobs[j].input_path), jobs[j].output_path)
            /\ jobs' = [jobs EXCEPT ![j].pc = "done"]
    /\ UNCHANGED <<now, store, pending, calls, uuids>>

----------------------------------------------------------------------------
(* The review handlers *)

AllMessages ==
    {jobs[j].out[k] : <<j, k>> \in {<<j, k>> \in (1..Len(jobs)) \X (1..8) : k <= Len(jobs[j].out)}}
    \cup
    {calls[c].out[k] : <<c, k>> \in {<<c, k>> \in (1..Len(calls)) \X (1..8) : k <= Len(calls[c].out)}}

\* the callback tokens of the controls shown so far in a chat
Buttons(chat) ==
    UNION {{m.markup[k] : k \in 1..Len(m.markup)} : m \in {x \in AllMessages : x.chat = chat}}

\* bot.register_next_step_handler_by_chat_id(chat_id, fn, report_id)
register_next_step_handler(pend, chat, fn, report_id) ==
    [pend EXCEPT ![chat] = Append(@, [fn |-> fn, report_id |-> report_id])]

handle_edit_subject(chat, data) ==
    /\ NReview + Len(pending[chat]) < MaxCalls
    /\ data \in Buttons(chat)
    /\ StartsWith(data, "edit_subject")
    /\ calls' = Append(calls,
            [NewCall("handle_edit_subject", chat, ReportIdOf(data), None, "done") EXCEPT
                !.out = <<Msg(chat, "Please enter the new subject:")>>])
    /\ pending' = register_next_step_handler(pending, chat, "save_subject", ReportIdOf(data))
    /\ UNCHANGED <<now, fs, jobs, store, uuids>>

handle_edit_message(chat, data) ==
    /\ NReview + Len(pending[chat]) < MaxCalls
    /\ data \in Buttons(chat)
    /\ StartsWith(data, "edit_message")
    /\ calls' = Append(calls,
            [NewCall("handle_edit_message", chat, ReportIdOf(data), None, "done") EXCEPT
                !.out = <<Msg(chat, "Please enter the new message:")>>])
    /\ pending' = register_next_step_handler(pending, chat, "save_message", ReportIdOf(data))
    /\ UNCHANGED <<now, fs, jobs, store, uuids>>

\* a text message from the chat: TeleBot pops the chat's next-step handlers
\* and hands the message to each of them on its worker threads
TextMessage(chat, text) ==
    /\ pending[chat] # <<>>
    /\ NReview + Len(pending[chat]) <= MaxCalls
    /\ calls' = calls \o
            [k \in 1..Len(pending[chat]) |->
                [NewCall(pending[chat][k].fn, chat, pending[chat][k].report_id, text, "set")
                    EXCEPT !.quiet = @ /\ k = 1]]
    /\ pending' = [pending EXCEPT ![chat] = <<>>]
    /\ UNCHANGED <<now, fs, jobs, store, uuids>>

\* the key save_subject / save_message writes
SavedKey(fn, report_id) ==
    IF fn = "save_subject" THEN SubjectKey(report_id) ELSE MessageKey(report_id)

\* save_subject / save_message: redis_client.set(key, message.text)
Save(c) ==
    /\ calls[c].kind \in {"save_subject", "save_message"}
    /\ calls[c].pc = "set"
    /\ store' = Set(store, SavedKey(calls[c].kind, calls[c].report_id), calls[c].text)
    /\ calls' = [calls EXCEPT ![c].pc = "display"]
    /\ UNCHANGED <<now, fs, jobs, pending, uuids>>

Or(v, default) == IF Truthy(v) THEN v ELSE default

\* the text display_report sends
ReportText(subject, message) ==
    "\nSubject: \n" \o Or(subject, "(No Subject)") \o "\n    \nBody:\n"
        \o Or(message, "(No Message)") \o "\n    "

\* display_report(chat_id, report_id), first command:
\* subject = redis_client.get(f"subject:{report_id}")
DisplayGetSubject(c) ==
    /\ calls[c].kind \in {"save_subject", "save_message"}
    /\ calls[c].pc = "display"
    /\ calls' = [calls EXCEPT ![c].pc = "display_message",
                              ![c].subject = Get(SubjectKey(calls[c].report_id))]
    /\ UNCHANGED <<now, fs, jobs, store, pending, uuids>>

\* display_report(chat_id, report_id), second command and the reply:
\* message = redis_client.get(f"message:{report_id}"); bot.send_message(...)
display_report(c) ==
    /\ calls[c].kind \in {"save_subject", "save_message"}
    /\ calls[c].pc = "display_message"
    /\ LET message == Get(MessageKey(calls[c].report_id))
       IN  calls' = [calls EXCEPT
                ![c].pc = "done",
                ![c].message = message,
                ![c].out = Append(@,
                    [chat |-> calls[c].chat,
                     text |-> ReportText(calls[c].subject, message),
                     markup |-> Controls(calls[c].report_id)])]
    /\ UNCHANGED <<now, fs, jobs, store, pending, uuids>>

----------------------------------------------------------------------------
(* handle_send_email *)

handle_send_email(chat, data) ==
    /\ NReview < MaxCalls
    /\ data \in Buttons(chat)
    /\ StartsWith(data, "send_email")
    /\ calls' = Append(calls,
            NewCall("handle_send_email", chat, ReportIdOf(data), None, "get_subject"))
    /\ UNCHANGED <<now, fs, jobs, store, pending, uuids>>

\* subject = redis_client.get(f"subject:{report_id}")
SendGetSubject(c) ==
    /\ calls[c].kind = "handle_send_email"
    /\ calls[c].pc = "get_subject"
    /\ calls' = [calls EXCEPT ![c].pc = "get_message",
                              ![c].subject = Get(SubjectKey(calls[c].report_id))]
    /\ UNCHANGED <<now, fs, jobs, store, pending, uuids>>

\* send_email(subject, message, email) for every email of TO_EMAIL, in order;
\* delivered[i] tells whether SMTP accepted the i-th mail (a failure is printed
\* and swallowed by send_email)
MailAll(subject, message, delivered) ==
    [i \in 1..Len(TO_EMAIL) |->
        [to |-> TO_EMAIL[i], subject |-> subject, body |-> message,
         delivered |-> delivered[i]]]

\* mutant: the "not found" branch does not return
SendGetMessage_no_return(c, delivered) ==
    /\ calls[c].kind = "handle_send_email"
    /\ calls[c].pc = "get_message"
    /\ LET message == Get(MessageKey(calls[c].report_id))
           subject == Or(calls[c].subject, DefaultSubject(now))
       IN  calls' = [calls EXCEPT
                ![c].pc = "delete",
                ![c].subject = subject,
                ![c].message = message,
                ![c].out = IF Truthy(message) THEN @
                           ELSE Append(@, Msg(calls[c].chat, "Report not found.")),
                ![c].mails = MailAll(subject, message, delivered)]
    /\ UNCHANGED <<now, fs, jobs, store, pending, uuids>>

\* message = redis_client.get(...); the default subject; the "not found" return;
\* the loop over TO_EMAIL
SendGetMessage(c, delivered) ==
    /\ calls[c].kind = "handle_send_email"
    /\ calls[c].pc = "get_message"
    /\ LET message == Get(MessageKey(calls[c].report_id))
           subject == Or(calls[c].subject, DefaultSubject(now))
       IN  IF ~Truthy(message)
           THEN calls' = [calls EXCEPT
                    ![c].pc = "done",
                    ![c].subject = subject,
                    ![c].message = message,
                    ![c].out = Append(@, Msg(calls[c].chat, "Report not found."))]
           ELSE calls' = [calls EXCEPT
                    ![c].pc = "delete",
                    ![c].subject = subject,
                    ![c].message = message,
                    ![c].mails = MailAll(subject, message, delivered)]
    /\ UNCHANGED <<now, fs, jobs, store, pending, uuids>>

\* redis_client.delete(report_id); redis_client.delete(f"subject:{report_id}")
SendDeleteSubject(c) ==
    /\ calls[c].kind = "handle_send_email"
    /\ calls[c].pc = "delete"
    /\ store' = Delete(Delete(store, calls[c].report_id), SubjectKey(calls[c].report_id))
    /\ calls' = [calls EXCEPT ![c].pc = "delete_message"]
    /\ UNCHANGED <<now, fs, jobs, pending, uuids>>

\* redis_client.delete(f"message:{report_id}"); the "sent" reply
SendDeleteMessage(c) ==
    /\ calls[c].kind = "handle_send_email"
    /\ calls[c].pc = "delete_message"
    /\ store' = Delete(store, MessageKey(calls[c].report_id))
    /\ calls' = [calls EXCEPT
            ![c].pc = "done",
            ![c].out = Append(@, Msg(calls[c].chat, "Email sent successfully."))]
    /\ UNCHANGED <<now, fs, jobs, pending, uuids>>

----------------------------------------------------------------------------
(* Time *)

Tick ==
    /\ now < MaxClock
    /\ now' = now + 1
    /\ UNCHANGED <<fs, jobs, store, pending, calls, uuids>>

----------------------------------------------------------------------------
(* The system *)

AllButtons == UNION {Buttons(chat) : chat \in Chats}

\* the job pipeline, the uploads coming from the given chats
PipelineStep(chats) ==
    \/ \E chat \in chats, upload \in Uploads, u \in FileUniqueIds, r \in RemotePaths :
            handle_files(chat, upload, u, r)
    \/ \E j \in 1..Len(jobs), downloaded \in BOOLEAN : download_and_process(j, downloaded)
    \/ \E j \in 1..Len(jobs), outcome \in ProbeOutcomes : Compress(j, outcome)
    \/ \E j \in 1..Len(jobs), outcome \in TranscriptionOutcomes : Transcribe(j, outcome)
    \/ \E j \in 1..Len(jobs), report \in ReportOutcomes : Generate(j, report)
    \/ \E j \in 1..Len(jobs), redis_up \in BOOLEAN : Deliver(j, redis_up)
    \/ \E j \in 1..Len(jobs), redis_up \in BOOLEAN : StageSubject(j, redis_up)
    \/ \E j \in 1..Len(jobs) : Notify(j)
    \/ \E j \in 1..Len(jobs) : Cleanup(j)

\* the outcomes of the SMTP calls of one send: recipient index -> accepted
Deliveries == [1..Len(TO_EMAIL) -> BOOLEAN]
AllDelivered == {[i \in 1..Len(TO_EMAIL) |-> TRUE]}

\* the review and dispatch handlers, the SMTP outcomes drawn from deliveries
ReviewStep(deliveries) ==
    \/ \E chat \in Chats, data \in AllButtons : handle_edit_subject(chat, data)
    \/ \E chat \in Chats, data \in AllButtons : handle_edit_message(chat, data)
    \/ \E chat \in Chats, text \in UserTexts : TextMessage(chat, text)
    \/ \E c \in 1..Len(calls) : Save(c)
    \/ \E c \in 1..Len(calls) : DisplayGetSubject(c)
    \/ \E c \in 1..Len(calls) : display_report(c)
    \/ \E chat \in Chats, data \in AllButtons : handle_send_email(chat, data)
    \/ \E c \in 1..Len(calls) : SendGetSubject(c)
    \/ \E c \in 1..Len(calls), delivered \in deliveries : SendGetMessage(c, delivered)
    \/ \E c \in 1..Len(calls) : SendDeleteSubject(c)
    \/ \E c \in 1..Len(calls) : SendDeleteMessage(c)

Next == PipelineStep(Chats) \/ ReviewStep(Deliveries) \/ Tick

Spec == Init /\ [][Next]_vars

\* the pipeline alone: the uploads of one chat and their jobs, no review action
NextPipeline == PipelineStep({"c1"})

SpecPipeline == Init /\ [][NextPipeline]_vars

\* voice messages from the given chats whose pipeline meets no failure, at
\* most n of them
StagingStep(chats, n) ==
    \/ \E chat \in chats :
            /\ Len(jobs) < n
            /\ handle_files(chat, [content_type |-> "voice", mime_type |-> None],
                            "u1", "voice/file_0.oga")
    \/ \E j \in 1..Len(jobs) : download_and_process(j, TRUE)
    \/ \E j \in 1..Len(jobs) : Compress(j, "audio")
    \/ \E j \in 1..Len(jobs) : Transcribe(j, "hello")
    \/ \E j \in 1..Len(jobs) : Generate(j, "# SOAP NOTE")
    \/ \E j \in 1..Len(jobs) : Deliver(j, TRUE)
    \/ \E j \in 1..Len(jobs) : StageSubject(j, TRUE)
    \/ \E j \in 1..Len(jobs) : Notify(j)
    \/ \E j \in 1..Len(jobs) : Cleanup(j)

\* staging over time: the store as the pipeline fills it, and the clock
NextStaging == StagingStep(Chats, MaxJobs) \/ Tick

SpecStaging == Init /\ [][NextStaging]_vars

\* the delivery of long reports: voice messages whose pipeline meets no failure
\* and whose generated report is one of LongReports, sent from the given chats
ChunkingStep(chats) ==
    \/ \E chat \in chats :
            handle_files(chat, [content_type |-> "voice", mime_type |-> None],
                         "u1", "voice/file_0.oga")
    \/ \E j \in 1..Len(jobs) : download_and_process(j, TRUE)
    \/ \E j \in 1..Len(jobs) : Compress(j, "audio")
    \/ \E j \in 1..Len(jobs) : Transcribe(j, "hello")
    \/ \E j \in 1..Len(jobs), report \in LongReports : Generate(j, report)
    \/ \E j \in 1..Len(jobs) : Deliver(j, TRUE)
    \/ \E j \in 1..Len(jobs) : StageSubject(j, TRUE)
    \/ \E j \in 1..Len(jobs) : Notify(j)
    \/ \E j \in 1..Len(jobs) : Cleanup(j)

NextChunking == ChunkingStep({"c1"})

SpecChunking == Init /\ [][NextChunking]_vars

\* the review flow of one staged report, once the job's task has returned (its
\* cleanup touches no state the handlers read), the SMTP server accepting every
\* mail (send_email swallows a failure, so no handler can tell)
Settled == \A j \in 1..Len(jobs) : jobs[j].pc = "done"

NextReview ==
    \/ StagingStep(Chats, 1)
    \/ Settled /\ ReviewStep(AllDelivered)

SpecReview == Init /\ [][NextReview]_vars

\* the send clicks on one staged report of one chat, each SMTP call accepted or
\* refused
DispatchStep ==
    \/ \E chat \in Chats, data \in AllButtons : handle_send_email(chat, data)
    \/ \E c \in 1..Len(calls) : SendGetSubject(c)
    \/ \E c \in 1..Len(calls), delivered \in Deliveries : SendGetMessage(c, delivered)
    \/ \E c \in 1..Len(calls) : SendDeleteSubject(c)
    \/ \E c \in 1..Len(calls) : SendDeleteMessage(c)

NextDispatch ==
    \/ StagingStep({"c1"}, 1)
    \/ Settled /\ DispatchStep

SpecDispatch == Init /\ [][NextDispatch]_vars

----------------------------------------------------------------------------
(* Vocabulary of the properties *)

Jobs == 1..Len(jobs)
Calls == 1..Len(calls)

NonEmpty(v) == v # "<None>" /\ v # ""

FailureTexts ==
    {"Failed to compress audio.", "Failed to transcribe audio.", "Failed to generate report."}

IsReady(m) == Len(m.markup) > 0 /\ m.text = ReadyText

IsTerminal(m) == m.text \in FailureTexts \/ IsReady(m)

TerminalCount(j) ==
    Cardinality({k \in 1..Len(jobs[j].out) : IsTerminal(jobs[j].out[k])})

StagesRun(j) == {jobs[j].stages[i].stage : i \in 1..Len(jobs[j].stages)}

FilesOf(j) == {p \in DOMAIN fs : fs[p] = j}

StageOrder == <<"fetch", "transcode", "transcribe", "generate", "stage">>

----------------------------------------------------------------------------
(* The job pipeline *)

\* C1: when a job has completed, whatever its exit path, no temporary file it
\* wrote is left (neither the raw file nor the normalized file) and the cleanup
\* raised no error for a file that does not exist.
C1_TempFilesDeleted ==
    \A j \in Jobs :
        (jobs[j].pc = "done" /\ "transcode" \in StagesRun(j))
            => (FilesOf(j) = {} /\ jobs[j].raised # "FileNotFoundError")

\* C2: a completed job has sent exactly one terminal message to its chat: the
\* ready note or one of the stage failure messages.
C2_OneTerminalMessage ==
    \A j \in Jobs : jobs[j].pc = "done" => TerminalCount(j) = 1

\* C3: a job whose probe found no audio stream replies "Failed to compress
\* audio." and nothing else, runs no transcription, generation or staging, and
\* writes no staged key.
C3_NoAudioStream ==
    \A j \in Jobs :
        jobs[j].probe = "no_audio" =>
            /\ jobs[j].out = <<[chat |-> jobs[j].chat,
                                text |-> "Failed to compress audio.",
                                markup |-> <<>>]>>
            /\ StagesRun(j) = {"fetch", "transcode"}
            /\ jobs[j].pc \in {"cleanup", "done"}
            /\ jobs[j].transcription = "<None>"
            /\ jobs[j].report = "<None>"
            /\ jobs[j].report_id = "<None>"

C3_Witness ==
    \E j \in Jobs : jobs[j].probe = "no_audio" /\ jobs[j].pc = "done"

\* C4: the stages of a job run in the order fetch, transcode, transcribe,
\* generate, stage; each starts only after the one before succeeded and with
\* that stage's product (the raw file written, a compressed path, a non-empty
\* transcription, a non-empty report); nothing runs after a failed stage.
C4_StageOrder ==
    \A j \in Jobs :
        LET st == jobs[j].stages IN
        /\ Len(st) <= Len(StageOrder)
        /\ \A i \in 1..Len(st) :
                /\ st[i].stage = StageOrder[i]
                /\ i < Len(st) => st[i].ok
        /\ jobs[j].pc = "compress" => (Len(st) = 1 /\ st[1].ok)
        /\ "transcribe" \in StagesRun(j) =>
                /\ jobs[j].compressed_path = "downloads/compressed_u1.mp3"
        /\ "generate" \in StagesRun(j) => NonEmpty(jobs[j].transcription)
        /\ "stage" \in StagesRun(j) => NonEmpty(jobs[j].report)
        /\ (Len(st) > 0 /\ ~st[Len(st)].ok) => jobs[j].pc \in {"cleanup", "done"}

C4_Witness ==
    \E j, k \in Jobs :
        /\ Len(jobs[j].stages) = 5 /\ jobs[j].stages[5].ok
        /\ Len(jobs[k].stages) = 3 /\ ~jobs[k].stages[3].ok /\ jobs[k].pc = "done"

FailureTextOf(stage) ==
    CASE stage = "transcode" -> "Failed to compress audio."
      [] stage = "transcribe" -> "Failed to transcribe audio."
      [] stage = "generate" -> "Failed to generate report."

\* C5: a job whose transcode, transcribe or generate stage failed ends there and
\* its only message is the failure message of that stage; the transcription is
\* never sent and no staged key is written.
C5_StageFailureReported ==
    \A j \in Jobs :
        LET st == jobs[j].stages IN
        (Len(st) > 0 /\ ~st[Len(st)].ok /\ st[Len(st)].stage # "fetch"
                     /\ st[Len(st)].stage # "stage") =>
            /\ jobs[j].out = <<[chat |-> jobs[j].chat,
                                text |-> FailureTextOf(st[Len(st)].stage),
                                markup |-> <<>>]>>
            /\ jobs[j].pc \in {"cleanup", "done"}
            /\ jobs[j].report_id = "<None>"
            /\ \A k \in 1..Len(jobs[j].out) : jobs[j].out[k].text # jobs[j].transcription

C5_Witness ==
    \E j \in Jobs :
        /\ jobs[j].pc = "done"
        /\ Len(jobs[j].stages) = 4 /\ ~jobs[j].stages[4].ok
        /\ jobs[j].transcription = "hello"

----------------------------------------------------------------------------
(* Staging *)

ExpectedDefaultSubject(day) ==
    <<"Notes 01/10/2026", "Notes 02/10/2026", "Notes 03/10/2026", "Notes 04/10/2026">>[day + 1]

\* C6: a job that succeeded sent the report and then exactly one message with
\* controls: the ready message, whose three controls edit_subject, edit_message
\* and send_email carry one report_id that no other job got; the store holds the
\* report under message:<report_id> and the default subject of the staging day
\* under subject:<report_id>.
C6_ReadyMessage ==
    \A j \in Jobs :
        "stage" \in StagesRun(j) =>
            LET rid == jobs[j].report_id
                out == jobs[j].out
            IN  /\ rid # "<None>"
                /\ \A k \in Jobs \ {j} : jobs[k].report_id # rid
                /\ Len(out) = 2
                /\ out[1] = [chat |-> jobs[j].chat, text |-> jobs[j].report, markup |-> <<>>]
                /\ out[2] = [chat |-> jobs[j].chat, text |-> ReadyText,
                             markup |-> <<"edit_subject:" \o rid,
                                          "edit_message:" \o rid,
                                          "send_email:" \o rid>>]
                /\ ("message:" \o rid) \in DOMAIN store
                /\ store["message:" \o rid].val = jobs[j].report
                /\ ("subject:" \o rid) \in DOMAIN store
                /\ store["subject:" \o rid].val
                      = ExpectedDefaultSubject(store["subject:" \o rid].written)

C6_Witness ==
    \E j, k \in Jobs :
        /\ "stage" \in StagesRun(j) /\ "stage" \in StagesRun(k)
        /\ store["subject:" \o jobs[j].report_id].val = "Notes 01/10/2026"
        /\ store["subject:" \o jobs[k].report_id].val = "Notes 02/10/2026"

\* C8: a staged key read after the configured TTL has elapsed since its last
\* write is absent.
C8_ExpiresAfterTTL ==
    \A k \in DOMAIN store :
        now - store[k].written >= StagingTTL => Get(k) = "<None>"

----------------------------------------------------------------------------
(* Review and dispatch *)

ReportIds == {jobs[j].report_id : j \in Jobs} \ {"<None>"}

Present(key) == Get(key) # "<None>"

ArtifactExists(rid) == Present("subject:" \o rid) \/ Present("message:" \o rid)

ReadySent(rid) ==
    \E j \in Jobs :
        /\ jobs[j].report_id = rid
        /\ \E k \in 1..Len(jobs[j].out) : IsReady(jobs[j].out[k])

IsSend(c) == calls[c].kind = "handle_send_email"

\* a send action for rid has mailed the report and returned
SendOccurred(rid) ==
    \E c \in Calls :
        IsSend(c) /\ calls[c].report_id = rid /\ calls[c].pc = "done" /\ Len(calls[c].mails) > 0

\* the report_ids whose job has left prompt_for_email_option
StagedIds ==
    {jobs[j].report_id : j \in {i \in Jobs : jobs[i].pc \in {"cleanup", "done"}}} \ {"<None>"}

\* C7: for every report_id whose staging has finished, the store holds a staged
\* artifact for it exactly when its ready notification has been sent and no
\* send has occurred for it.
C7_ArtifactIffReady ==
    \A rid \in StagedIds :
        ArtifactExists(rid) <=> (ReadySent(rid) /\ ~SendOccurred(rid))

NotFoundReply(c) ==
    <<[chat |-> calls[c].chat, text |-> "Report not found.", markup |-> <<>>]>>

\* C9: when the send handler reads the body key message:<report_id> and it is
\* absent, the handler returns at once having replied "Report not found." and
\* nothing else, no mail is sent and no key is touched, whether or not the
\* subject key was present; a handler that has returned does nothing more.
C9_SendNotFound ==
    [][\A c \in Calls :
          /\ (/\ IsSend(c)
              /\ calls[c].pc = "get_message"
              /\ calls'[c].pc # "get_message"
              /\ ("message:" \o calls[c].report_id) \notin DOMAIN store)
             => /\ calls'[c].pc = "done"
                /\ calls'[c].out = NotFoundReply(c)
                /\ calls'[c].mails = <<>>
                /\ store' = store
          /\ calls[c].pc = "done" => calls'[c] = calls[c]
      ]_vars

C9_Witness ==
    \E c \in Calls :
        /\ IsSend(c)
        /\ calls[c].pc = "done"
        /\ calls[c].out = NotFoundReply(c)
        /\ calls[c].mails = <<>>
        /\ calls[c].subject = "Session Notes"

\* the mails of a send: one per configured recipient, in order
MailedOnce(c, subject, body) ==
    /\ Len(calls[c].mails) = Len(TO_EMAIL)
    /\ \A i \in 1..Len(TO_EMAIL) :
            /\ calls[c].mails[i].to = TO_EMAIL[i]
            /\ calls[c].mails[i].subject = subject
            /\ calls[c].mails[i].body = body

\* C10: a send that found the body present has mailed every configured
\* recipient exactly once with the subject and body it read, and when it
\* returns both subject:<report_id> and message:<report_id> are absent.
C10_SendThenAbsent ==
    [][\A c \in Calls :
          (IsSend(c) /\ calls[c].pc = "delete_message" /\ calls'[c].pc = "done")
             => /\ MailedOnce(c, calls[c].subject, calls[c].message)
                /\ ("subject:" \o calls[c].report_id) \notin DOMAIN store'
                /\ ("message:" \o calls[c].report_id) \notin DOMAIN store'
      ]_vars

----------------------------------------------------------------------------
(* Actions on a report that is gone *)

SaysNotFound(out) == \E k \in 1..Len(out) : out[k].text = "Report not found."

\* C11: a handler (edit-subject click, edit-body click, the save of a submitted
\* text, or send) that acts for a report_id neither of whose keys is in the
\* store creates no key for that report_id, and when it returns it has replied
\* "Report not found." to the chat.
C11_ExpiredNotFound ==
    [][\A c \in 1..Len(calls') :
          LET rid == calls'[c].report_id IN
          (/\ rid # "<None>"
           /\ ("subject:" \o rid) \notin DOMAIN store
           /\ ("message:" \o rid) \notin DOMAIN store
           /\ (c > Len(calls) \/ calls'[c] # calls[c]))
             => /\ ("subject:" \o rid) \notin DOMAIN store'
                /\ ("message:" \o rid) \notin DOMAIN store'
                /\ calls'[c].pc = "done" => SaysNotFound(calls'[c].out)
      ]_vars

\* C12: once a send has completed for a report_id and its keys are gone, no
\* step makes subject:<report_id> or message:<report_id> present again.
C12_SentIsTerminal ==
    [][\A rid \in ReportIds :
          (/\ SendOccurred(rid)
           /\ ("subject:" \o rid) \notin DOMAIN store
           /\ ("message:" \o rid) \notin DOMAIN store)
             => /\ ("subject:" \o rid) \notin DOMAIN store'
                /\ ("message:" \o rid) \notin DOMAIN store'
      ]_vars

\* C13: a chat has at most one pending input request; the next text message of
\* the chat is handed to exactly one save, that of the latest request, and
\* leaves no request behind.
C13_OnePendingRequest ==
    [][\A chat \in Chats :
          /\ Len(pending'[chat]) <= 1
          /\ (pending[chat] # <<>> /\ pending'[chat] = <<>>) =>
                /\ Len(calls') = Len(calls) + 1
                /\ calls'[Len(calls')].kind = pending[chat][Len(pending[chat])].fn
                /\ calls'[Len(calls')].report_id
                      = pending[chat][Len(pending[chat])].report_id
      ]_vars

----------------------------------------------------------------------------
(* Concurrent jobs *)

\* C14: a step of a job leaves every file written by another job in place and
\* unchanged, and the file a job transcodes or transcribes is one it wrote.
C14_FilesJobPrivate ==
    [][\A j \in Jobs :
          jobs'[j] # jobs[j] =>
              /\ \A p \in DOMAIN fs :
                    fs[p] # j => (p \in DOMAIN fs' /\ fs'[p] = fs[p])
              /\ (jobs[j].pc = "compress" /\ jobs[j].input_path \in DOMAIN fs)
                    => fs[jobs[j].input_path] = j
              /\ (jobs[j].pc = "transcribe" /\ jobs[j].compressed_path \in DOMAIN fs)
                    => fs[jobs[j].compressed_path] = j
      ]_vars

----------------------------------------------------------------------------
(* Edit submissions *)

IsSave(c) == calls[c].kind \in {"save_subject", "save_message"}

\* the key an edit submission is for
OwnKey(c) ==
    IF calls[c].kind = "save_subject"
    THEN "subject:" \o calls[c].report_id
    ELSE "message:" \o calls[c].report_id

\* the save c performs its write in this step
Writes(c) == IsSave(c) /\ calls[c].pc = "set" /\ calls'[c].pc = "display"

\* C15: writes to one key resolve last-write-wins with no merge: the write of an
\* edit submission makes the stored value exactly its text, whatever was there,
\* and the value stays until the next write to that key or a delete, so after
\* two racing submissions the value is the text of the one applied last.
C15_LastWriteWins ==
    [][\A k \in DOMAIN store' :
          IF \E c \in Calls : Writes(c) /\ OwnKey(c) = k
          THEN \A c \in Calls : (Writes(c) /\ OwnKey(c) = k) => store'[k].val = calls[c].text
          ELSE k \in DOMAIN store => store'[k].val = store[k].val
      ]_vars

\* two submissions for one key overlapped, the one that arrived second wrote
\* first, and the stored value is the text of the first
C15_Witness ==
    \E c, d \in Calls :
        /\ c < d
        /\ IsSave(c) /\ IsSave(d)
        /\ calls[c].kind = calls[d].kind
        /\ calls[c].report_id = calls[d].report_id
        /\ calls[c].text # calls[d].text
        /\ calls[c].pc = "done" /\ calls[d].pc = "done"
        /\ ~calls[d].quiet
        /\ OwnKey(c) \in DOMAIN store
        /\ store[OwnKey(c)].val = calls[c].text
        /\ \E k \in 1..Len(calls[d].out) :
              calls[d].out[k].text
                 = "\nSubject: \n" \o calls[d].text \o "\n    \nBody:\n# SOAP NOTE\n    "

\* what display_report shows for a key: its value, or the placeholder
Shown(key, placeholder) ==
    IF key \in DOMAIN store /\ store[key].val # "" THEN store[key].val ELSE placeholder

\* C17: the write of an edit submission changes its own key only, every other
\* key of the store (the other field of the report, every other report) is
\* left as it was; the submission then replies once, showing the subject and
\* body the store holds and the three controls bound to the same report_id.
C17_EditOwnFieldOnly ==
    [][\A c \in Calls :
          /\ Writes(c) =>
                /\ OwnKey(c) \in DOMAIN store'
                /\ store'[OwnKey(c)].val = calls[c].text
                /\ \A k \in (DOMAIN store \cup DOMAIN store') \ {OwnKey(c)} :
                      k \in DOMAIN store /\ k \in DOMAIN store' /\ store'[k] = store[k]
          /\ (IsSave(c) /\ calls[c].pc # "done" /\ calls'[c].pc = "done") =>
                /\ store' = store
                /\ calls'[c].out =
                      <<[chat |-> calls[c].chat,
                         text |-> "\nSubject: \n"
                                    \o Shown("subject:" \o calls[c].report_id, "(No Subject)")
                                    \o "\n    \nBody:\n"
                                    \o Shown("message:" \o calls[c].report_id, "(No Message)")
                                    \o "\n    ",
                         markup |-> <<"edit_subject:" \o calls[c].report_id,
                                      "edit_message:" \o calls[c].report_id,
                                      "send_email:" \o calls[c].report_id>>]>>
      ]_vars

----------------------------------------------------------------------------
(* Delivery of the report *)

\* the texts of the first n messages, concatenated
RECURSIVE ConcatTexts(_, _)
ConcatTexts(msgs, n) ==
    IF n = 0 THEN "" ELSE ConcatTexts(msgs, n - 1) \o msgs[n].text

\* C16: a report of length L >= 1 is delivered as exactly ceil(L / 4095) chat
\* messages to the job's chat, sent before the ready message, each of length 1
\* to 4095, whose texts concatenated in order are the report.
C16_ChunkingLaw ==
    \A j \in Jobs :
        "stage" \in StagesRun(j) =>
            LET L == Len(jobs[j].report)
                n == (L + 4094) \div 4095
                out == jobs[j].out
            IN  /\ L >= 1
                /\ Len(out) = n + 1
                /\ \A k \in 1..n :
                      /\ out[k].chat = jobs[j].chat
                      /\ out[k].markup = <<>>
                      /\ Len(out[k].text) >= 1
                      /\ Len(out[k].text) <= 4095
                /\ ConcatTexts(out, n) = jobs[j].report
                /\ IsReady(out[n + 1])

C16_Witness ==
    \E j, k \in Jobs :
        /\ "stage" \in StagesRun(j)
        /\ Len(jobs[j].report) = 8191
        /\ Len(jobs[j].out) = 4
        /\ Len(jobs[j].out[3].text) = 1
        /\ "stage" \in StagesRun(k)
        /\ Len(jobs[k].report) = 4095
        /\ Len(jobs[k].out) = 2

----------------------------------------------------------------------------
(* The chat-facing handler *)

Reply(chat, text) == <<[chat |-> chat, text |-> text, markup |-> <<>>]>>

\* C18: handle_files does no pipeline work. For an accepted upload it replies,
\* enqueues one job that has run no stage yet and returns, touching no file,
\* no key and no other job; for a document whose MIME type is not audio it
\* replies and enqueues nothing.
C18_HandlerNonBlocking ==
    [][(Len(calls') > Len(calls) /\ calls'[Len(calls')].kind = "handle_files") =>
          \A chat \in Chats, upload \in Uploads, u \in FileUniqueIds, r \in RemotePaths :
              handle_files(chat, upload, u, r) =>
                  LET h == calls'[Len(calls')] IN
                  /\ h.pc = "done"
                  /\ fs' = fs
                  /\ store' = store
                  /\ \A j \in Jobs : jobs'[j] = jobs[j]
                  /\ IF upload.content_type = "document"
                        /\ SubSeq(upload.mime_type, 1, 6) # "audio/"
                     THEN /\ jobs' = jobs
                          /\ h.out = Reply(chat, "Please send an audio file.")
                     ELSE /\ Len(jobs') = Len(jobs) + 1
                          /\ jobs'[Len(jobs')].chat = chat
                          /\ jobs'[Len(jobs')].remote_path = r
                          /\ jobs'[Len(jobs')].pc = "download"
                          /\ jobs'[Len(jobs')].stages = <<>>
                          /\ jobs'[Len(jobs')].out = <<>>
                          /\ h.out = Reply(chat, "Please wait while we process the file")
      ]_vars

C18_Witness ==
    \E c, d \in Calls :
        /\ calls[c].kind = "handle_files" /\ calls[c].pc = "done"
        /\ calls[c].out[1].text = "Please wait while we process the file"
        /\ calls[d].kind = "handle_files" /\ calls[d].pc = "done"
        /\ calls[d].out[1].text = "Please send an audio file."
        /\ Len(jobs) = 1
        /\ Len(jobs[1].stages) = 5

----------------------------------------------------------------------------
(* Dispatch *)

\* the sends for rid that called the mail adapter for the i-th recipient
MailersTo(rid, i) ==
    {c \in Calls :
        /\ IsSend(c)
        /\ calls[c].report_id = rid
        /\ \E k \in 1..Len(calls[c].mails) : calls[c].mails[k].to = TO_EMAIL[i]}

\* C19: for every report_id and every configured recipient, at most one send
\* has called the mail adapter, however the sends for that report_id interleave.
C19_MailAtMostOnce ==
    \A rid \in ReportIds :
        \A i \in 1..Len(TO_EMAIL) : Cardinality(MailersTo(rid, i)) <= 1

MailFailed(c) ==
    \E k \in 1..Len(calls[c].mails) : ~calls[c].mails[k].delivered

\* C20: a send one of whose mail adapter calls failed deletes nothing and does
\* not reply "Email sent successfully.": the body it read stays in the store.
C20_DeleteOnlyIfMailed ==
    \A c \in Calls :
        (IsSend(c) /\ MailFailed(c)) =>
            /\ calls[c].pc \notin {"delete_message", "done"}
            /\ \A k \in 1..Len(calls[c].out) :
                  calls[c].out[k].text # "Email sent successfully."

====
